---- MODULE Spec2Model ----
(***************************************************************************)
(* LLMule broker: the provider registry, the heartbeat monitor, the        *)
(* dispatcher (selection, reservation, correlated send / await) and the    *)
(* provider session layer, as a state machine.                             *)
(*                                                                         *)
(* Sources: src/src/services/providerManager.js (class ProviderManager,    *)
(* lines 7-592), src/src/server.js (the WebSocket session layer),          *)
(* src/src/config/models.js (ModelManager.getModelInfo), and for the       *)
(* ledger src/unnamed/part_007 (services/tokenService.js) with             *)
(* src/src/config/index.js (config/tokenomics.js).                         *)
(*                                                                         *)
(* Node.js runs every callback to completion, so one action is one         *)
(* callback, or one stretch of an async function between two awaits that   *)
(* wait for I/O.  Time is counted in milliseconds and advances by one      *)
(* heartbeat period per Tick.  Model identifiers are sequences of          *)
(* one-character strings so that split / toLowerCase / includes are        *)
(* computed, not assumed.                                                   *)
(***************************************************************************)
EXTENDS Integers, Sequences, FiniteSets, TLC

\* ------------------------------------------------------------------ bounds
\* provider connections, and route calls in progress at one time
NumSessions == 2
NumRequests == 2
\* register messages the broker receives in one run
MaxRegisters == 2
\* the count of resolve / reject calls on one promise saturates here
MaxTerminalEvents == 2

\* user accounts, processUsage calls and getBalance calls of one run
NumAccounts == 2
NumSettlements == 2
NumBalanceCalls == 2

\* session ids and request ids are fresh uuids; 0 stands for "no session"
Sessions == 1..NumSessions
Requests == 1..NumRequests
Accounts == 1..NumAccounts
Jobs == 1..NumSettlements
Calls == 1..NumBalanceCalls

\* ------------------------------------------------- constants of the program
heartbeatInterval == 15000
timeoutThreshold == 45000
loadBalancingThreshold == 5
requestTimeoutMs == 300000
\* config/tokenomics.js; MULE amounts are counted in units of 10^-decimals
decimals == 6
MuleUnit == 1000000
welcome_amount == 1 * MuleUnit
\* fees.platform_fee = 0.10, as a percentage
platform_fee == 10
conversion_rates == [small |-> 1000000, medium |-> 500000, large |-> 250000, xl |-> 125000]

\* the clock advances by one heartbeat period per Tick
MsPerTick == heartbeatInterval

\* ----------------------------------------------------------- small helpers
Min(a, b) == IF a < b THEN a ELSE b
Max(a, b) == IF a > b THEN a ELSE b

\* ------------------------------------------------ strings as character rows
UpperAlphabet == <<"A","B","C","D","E","F","G","H","I","J","K","L","M",
                   "N","O","P","Q","R","S","T","U","V","W","X","Y","Z">>
LowerAlphabet == <<"a","b","c","d","e","f","g","h","i","j","k","l","m",
                   "n","o","p","q","r","s","t","u","v","w","x","y","z">>
Digits == {"0","1","2","3","4","5","6","7","8","9"}

\* String.prototype.toLowerCase, one character
LowerChar(c) ==
  IF \E i \in 1..26 : UpperAlphabet[i] = c
  THEN LowerAlphabet[CHOOSE i \in 1..26 : UpperAlphabet[i] = c]
  ELSE c

ToLowerCase(s) == [i \in 1..Len(s) |-> LowerChar(s[i])]

\* the places of character c in s
Places(s, c) == {i \in 1..Len(s) : s[i] = c}

\* s.split(c)[0]
SplitFirst(s, c) ==
  IF Places(s, c) = {} THEN s
  ELSE SubSeq(s, 1, (CHOOSE i \in Places(s, c) : \A j \in Places(s, c) : i <= j) - 1)

\* s.split(c).pop()
SplitLast(s, c) ==
  IF Places(s, c) = {} THEN s
  ELSE SubSeq(s, (CHOOSE i \in Places(s, c) : \A j \in Places(s, c) : i >= j) + 1, Len(s))

\* s.includes(sub)
Includes(s, sub) ==
  \E i \in 1..(Len(s) - Len(sub) + 1) : SubSeq(s, i, i + Len(sub) - 1) = sub

\* the model identifiers of this model: what providers advertise ...
Mistral7b == <<"m","i","s","t","r","a","l",":","7","b">>
TinyLlama == <<"t","i","n","y","l","l","a","m","a">>
OpenChat == <<"o","p","e","n","c","h","a","t">>
\* ... and what clients ask for: a tier selector and a specific model
TierMedium == <<"m","e","d","i","u","m">>
AskMistral == <<"M","i","s","t","r","a","l">>

\* user._id of the two accounts, as toString() gives it (24 hex digits)
ObjectIdOf(userId) ==
  IF userId = "u1"
  THEN <<"6","5","a","1","b","2","c","3","0","0","0","0","0","0","0","0",
         "0","0","0","0","0","0","0","1">>
  ELSE <<"6","5","a","1","b","2","c","4","0","0","0","0","0","0","0","0",
         "0","0","0","0","0","0","0","2">>

HexDigits == <<"0","1","2","3","4","5","6","7","8","9","a","b","c","d","e","f">>
DecimalDigits == <<"0","1","2","3","4","5","6","7","8","9">>

\* parseInt(idHex, 16) of a row of hex digits
RECURSIVE parseInt16(_)
parseInt16(idHex) ==
  IF idHex = <<>> THEN 0
  ELSE 16 * parseInt16(SubSeq(idHex, 1, Len(idHex) - 1))
       + (CHOOSE d \in 0..15 : HexDigits[d + 1] = idHex[Len(idHex)])

\* `${number}`: the decimal digits of a number >= 0
RECURSIVE numberToString(_)
numberToString(number) ==
  IF number < 10 THEN <<DecimalDigits[number + 1]>>
  ELSE Append(numberToString(number \div 10), DecimalDigits[(number % 10) + 1])

\* generateProviderNumber(userId): the public handle of an account
generateProviderNumber(userId) ==
  <<"u","s","e","r","_">>
    \o numberToString(parseInt16(SubSeq(ObjectIdOf(userId), 1, 8)) % 1000000)

\* the id the models list gives a provider's model: `${model}@${alias}`
baseModelId(model, alias) == model \o <<"@">> \o alias
\* ... and a client that asks for account u2's mistral:7b by that id
AskAddressed == baseModelId(Mistral7b, generateProviderNumber("u2"))

TierNames == { <<"s","m","a","l","l">>, TierMedium, <<"l","a","r","g","e">>, <<"x","l">> }

\* _isExactModelMatch's normalizeModelName
normalizeModelName(name) == ToLowerCase(SplitLast(SplitFirst(name, ":"), "/"))

_isExactModelMatch(providerModel, requestedModel) ==
  normalizeModelName(providerModel) = normalizeModelName(requestedModel)

\* ------------------------------------------- ModelManager (config/models.js)
\* A pattern is a row of elements; an element is a set of characters that
\* may be optional ("?").  PatternEnds is the set of places where a match
\* of pat[k..] that starts at place i of s can end.
Lit(s) == [i \in 1..Len(s) |-> [cs |-> {s[i]}, opt |-> FALSE]]
One(chars) == << [cs |-> chars, opt |-> FALSE] >>
Opt(chars) == << [cs |-> chars, opt |-> TRUE] >>

RECURSIVE PatternEnds(_, _, _, _)
PatternEnds(s, i, pat, k) ==
  IF k > Len(pat) THEN {i}
  ELSE (IF i <= Len(s) /\ s[i] \in pat[k].cs THEN PatternEnds(s, i + 1, pat, k + 1) ELSE {})
       \cup (IF pat[k].opt THEN PatternEnds(s, i, pat, k + 1) ELSE {})

IsWordChar(c) ==
  \/ c \in Digits
  \/ c = "_"
  \/ \E i \in 1..26 : c = UpperAlphabet[i] \/ c = LowerAlphabet[i]

\* the regular expression's \b just before place p of s
WordBoundary(s, p) ==
  (p - 1 >= 1 /\ p - 1 <= Len(s) /\ IsWordChar(s[p - 1]))
    # (p >= 1 /\ p <= Len(s) /\ IsWordChar(s[p]))

\* /pat/.test(s)
Test(s, pat) == \E i \in 1..(Len(s) + 1) : PatternEnds(s, i, pat, 1) # {}

\* /\bpat\b/.test(s)
TestWord(s, pat) ==
  \E i \in 1..(Len(s) + 1) :
    /\ WordBoundary(s, i)
    /\ \E e \in PatternEnds(s, i, pat, 1) : WordBoundary(s, e)

\* /a.*b/.test(s)
TestThen(s, a, b) ==
  \E i \in 1..(Len(s) + 1) : \E e \in PatternEnds(s, i, a, 1) :
    \E j \in e..(Len(s) + 1) : PatternEnds(s, j, b, 1) # {}

Dash == Opt({"-"})
SizeTail == Opt({"."}) \o Opt(Digits) \o Lit(<<"b">>)

\* modelConfig.sizePatterns, tier by tier in the order of the object's keys
sizePatterns(s, tier) ==
  CASE tier = "small" ->
         \/ TestWord(s, One({"1","2","3"}) \o SizeTail)
         \/ Test(s, Lit(<<"t","i","n","y">>))
         \/ Test(s, Lit(<<"m","i","n","i">>))
         \/ Test(s, Lit(<<"s","m","a","l","l">>))
         \/ TestWord(s, One(Digits) \o Opt(Digits) \o Opt(Digits) \o Lit(<<"m">>))
         \/ Test(s, Lit(<<"p","h","i">>) \o Dash \o One({"1","2"}))
    [] tier = "medium" ->
         \/ TestWord(s, One({"4","5","6","7","8","9"}) \o SizeTail)
         \/ TestWord(s, Lit(<<"1">>) \o One({"0","1","2"}) \o SizeTail)
         \/ Test(s, Lit(<<"m","i","s","t","r","a","l">>) \o Dash \o Lit(<<"7","b">>))
         \/ Test(s, Lit(<<"l","l","a","m","a">>) \o Dash \o One({"2","3"}) \o Dash
                      \o Lit(<<"7","b">>))
    [] tier = "large" ->
         \/ TestWord(s, Lit(<<"1">>) \o One({"3","4","5","6","7","8","9"}) \o SizeTail)
         \/ TestWord(s, Lit(<<"2">>) \o One(Digits) \o SizeTail)
         \/ Test(s, Lit(<<"m","i","x","t","r","a","l">>))
         \/ Test(s, Lit(<<"p","h","i">>) \o Dash \o Lit(<<"4">>))
         \/ TestThen(s, Lit(<<"q","w","e","n">>), Lit(<<"1","4","b">>))
    [] OTHER ->
         \/ TestWord(s, One({"3","4","5","6","7","8","9"}) \o One(Digits) \o SizeTail)
         \/ Test(s, Lit(<<"l","l","a","m","a">>) \o Dash \o Lit(<<"2">>) \o Dash
                      \o Lit(<<"7","0","b">>))

\* the places of the separators of split(/[-:\/]/)
SeparatorPlaces(s) == {i \in 1..Len(s) : s[i] \in {"-", ":", "/"}}

\* s.split(/[-:\/]/)[n] for n = 0, 1; <<>> stands for undefined and for ""
SplitToken(s, n) ==
  LET seps == SeparatorPlaces(s)
      first == IF seps = {} THEN Len(s) + 1
               ELSE CHOOSE i \in seps : \A j \in seps : i <= j
      rest == {i \in seps : i > first}
      second == IF rest = {} THEN Len(s) + 1
                ELSE CHOOSE i \in rest : \A j \in rest : i <= j
  IN IF n = 0 THEN SubSeq(s, 1, first - 1) ELSE SubSeq(s, first + 1, second - 1)

\* modelConfig.modelFamilies[family], and [family][variant] for the nested
\* ones: a tier, "object" for phi's nested '3', "absent" for no entry
modelFamilies(family, variant) ==
  CASE family = <<"p","h","i">> ->
         (CASE variant \in {<<"1">>, <<"2">>} -> "small"
            [] variant = <<"3">> -> "object"
            [] variant = <<"4">> -> "large"
            [] OTHER -> "absent")
    [] family \in {<<"m","i","s","t","r","a","l">>, <<"o","p","e","n","c","h","a","t">>,
                   <<"o","p","e","n","h","e","r","m","e","s">>, <<"h","e","r","m","e","s">>}
         -> "medium"
    [] family = <<"m","i","x","t","r","a","l">> -> "large"
    [] family = <<"l","l","a","m","a","2">> ->
         (CASE variant \in {<<"7","b">>, <<"1","3","b">>} -> "medium"
            [] variant = <<"7","0","b">> -> "xl"
            [] OTHER -> "absent")
    [] family = <<"v","i","c","u","n","a">> ->
         (CASE variant \in {<<"7","b">>, <<"1","3","b">>} -> "medium"
            [] OTHER -> "absent")
    [] OTHER -> "absent"

\* ModelManager.getModelInfo(modelName).tier for a name without "|"
getModelTier(modelName) ==
  LET lower == ToLowerCase(modelName)
      family == modelFamilies(SplitToken(lower, 0), SplitToken(lower, 1))
  IN IF modelName = <<>> THEN "medium"
     ELSE IF lower \in TierNames
       THEN (CASE lower = <<"s","m","a","l","l">> -> "small"
               [] lower = TierMedium -> "medium"
               [] lower = <<"l","a","r","g","e">> -> "large"
               [] OTHER -> "xl")
     ELSE IF Includes(lower, <<"m","i","n","i">>) THEN "small"
     ELSE IF family # "absent" THEN family
     ELSE IF sizePatterns(lower, "small") THEN "small"
     ELSE IF sizePatterns(lower, "medium") THEN "medium"
     ELSE IF sizePatterns(lower, "large") THEN "large"
     ELSE IF sizePatterns(lower, "xl") THEN "xl"
     ELSE "medium"

\* a tier as the string the code compares it with
TierWord(tier) ==
  CASE tier = "small" -> <<"s","m","a","l","l">>
    [] tier = "medium" -> TierMedium
    [] tier = "large" -> <<"l","a","r","g","e">>
    [] tier = "xl" -> <<"x","l">>
    [] OTHER -> <<>>

\* modelConfig.modelTypes[type].test(model) ("i" flag); no entry: FALSE
modelTypes(type, model) ==
  LET lower == ToLowerCase(model)
  IN CASE type = <<"m","i","s","t","r","a","l">> ->
            Includes(lower, <<"m","i","s","t","r","a","l">>)
              \/ Includes(lower, <<"m","i","s","t","a","l">>)
       [] type = <<"l","l","a","m","a">> ->
            Includes(lower, <<"l","l","a","m","a">>) \/ Includes(lower, <<"a","l","p","a","c","a">>)
       [] type \in {<<"p","h","i">>, <<"q","w","e","n">>, <<"m","i","x","t","r","a","l">>,
                    <<"h","e","r","m","e","s">>, <<"o","p","e","n","c","h","a","t">>} ->
            Includes(lower, type)
       [] OTHER -> FALSE

\* ModelManager._handleCombinedRequest(tierOrType, model): the tier of the
\* record it returns, "null" for null
_handleCombinedRequest(tierOrType, model) ==
  IF ToLowerCase(tierOrType) \in TierNames
  THEN IF TierWord(getModelTier(model)) = ToLowerCase(tierOrType)
       THEN getModelTier(model) ELSE "null"
  ELSE IF modelTypes(ToLowerCase(tierOrType), model) THEN getModelTier(model)
  ELSE "null"

\* ModelManager.getModelInfo(modelName): the tier of the record it returns
\* ("object": the nested table of phi 3 in the place of a tier; "null": null)
getModelInfo(modelName) ==
  LET tierOrType == SplitFirst(modelName, "|")
      \* modelName.split('|')[1]
      model == SplitFirst(SubSeq(modelName, Len(tierOrType) + 2, Len(modelName)), "|")
  IN IF Includes(modelName, <<"|">>)
     THEN _handleCombinedRequest(tierOrType, model)
     ELSE getModelTier(modelName)

\* req.body.model as a combined selector: "medium|llama" and "small|llama"
CombinedSelectors ==
  { TierMedium \o <<"|","l","l","a","m","a">>,
    <<"s","m","a","l","l","|","l","l","a","m","a">> }

\* getModelInfo is pure: its value for the identifiers of this model
AllModels ==
  {Mistral7b, TinyLlama, OpenChat, TierMedium, AskMistral, AskAddressed} \cup CombinedSelectors
ModelTier == [m \in AllModels |-> getModelInfo(m)]

\* ------------------------------------------------------------- the inputs
\* the advertised model lists of a register message
ModelLists == { <<Mistral7b>>, <<TinyLlama>> }
\* requestData.model of a route call
AskedModels == {TierMedium, AskMistral}
\* the api key of the account behind each connection, an unknown key, and a
\* register message without a key
KeyOf(s) == IF s = 1 THEN "k1" ELSE "k2"
ApiKeys(s) == {KeyOf(s), "bad", "missing"}
\* User.findOne({apiKey, emailVerified: true, status: 'active'})
UserOfKey(k) == CASE k = "k1" -> "u1" [] k = "k2" -> "u2" [] OTHER -> "none"
\* the average tokens_per_second a provider's stored history can give
TpsValues == {0, 50}
\* data.response of a completion_response message: a completion with usage,
\* one without, or no response at all
ResponseKinds == {"usage", "nousage", "missing"}

\* ---------------------------------------------------------------- the state
VARIABLES
  ws,               \* readyState of each connection's WebSocket ("NONE": not yet connected)
  providers,        \* this.providers: session id -> entry (NoProvider: no entry)
  mapOrder,         \* the insertion order of this.providers' keys
  providerUserIds,  \* this.providerUserIds ("none": no entry)
  requestCounts,    \* this.requestCounts (-1: no entry)
  requestQueue,     \* this.requestQueue (0 also stands for no entry: every read is "|| 0" or "|| 1")
  pingIntervals,    \* the sessions with a heartbeat interval (this.pingIntervals)
  hbDue,            \* the heartbeat intervals whose callback is due
  wsHandlers,       \* how many times setupWebSocketHandlers ran on the connection
  registers,        \* register messages received so far
  registerCalls,    \* registerProvider calls waiting for User.findOne
  probe,            \* what the heartbeat callbacks of this period did
  removed,          \* sessions whose entry removeProvider has deleted
  registeredOrder,  \* the sessions in the order of their first successful register
  pendingRequests,  \* this.pendingRequests: request id -> record (NoPending: none)
  timeoutHandle,    \* the requests whose setTimeout is armed
  elapsed,          \* ms since the request's timer was armed
  route,            \* each routeRequest call: where it is and what it holds
  outcome,          \* how the call's promise was settled
  terminalEvents,   \* resolve / reject calls made on the call's promise
  delivered,        \* the completion_request was written to the socket
  sent,             \* the session whose socket got the call's send() (0: none)
  dropped,          \* a completion_response for the request found no record and was dropped
  response,         \* the kind of response the call's promise was resolved with
  topScorers,       \* the candidates of the call that had the highest score at its selection
  balanceRows,      \* the user ids that have a document in the Balance collection
  balance,          \* the balance field of each Balance document (0 where there is none)
  transactions,     \* the Transaction collection, in insertion order
  settlements,      \* each processUsage call: where it is, its arguments and amounts
  applied,          \* the writes of each processUsage call that the store has applied
  balanceCalls,     \* each getBalance call: where it is and its user id
  createdBy,        \* which write inserted the account's Balance document
  performance,      \* the performance field of each account's Provider document
  handlers,         \* each handleLLMRequest call: where it is and what it holds
  conversion,       \* a run of the TokenCalculator conversions: its arguments and results
  classification    \* a call of ModelManager.getModelInfo: its argument and result

brokerVars == << ws, providers, mapOrder, providerUserIds, requestCounts, requestQueue,
           pingIntervals, hbDue, wsHandlers, registers, registerCalls, probe, removed,
           registeredOrder, response, topScorers,
           pendingRequests, timeoutHandle, elapsed, route, outcome, terminalEvents,
           delivered, sent, dropped >>
ledgerVars == << balanceRows, balance, transactions, settlements, applied,
                 balanceCalls, createdBy, performance >>
controllerVars == << handlers >>
functionVars == << conversion, classification >>
vars == << brokerVars, ledgerVars, controllerVars, functionVars >>

registryVars == << providers, mapOrder, providerUserIds, requestCounts, pingIntervals,
                   hbDue, removed, registeredOrder >>
sessionVars == << ws, wsHandlers, registers, registerCalls, probe >>
requestVars == << pendingRequests, timeoutHandle, elapsed, route, outcome,
                  terminalEvents, delivered, sent, dropped, response, topScorers >>

NoProvider == [status |-> "absent", readyForRequests |-> FALSE, silence |-> 0,
               models |-> <<>>, userId |-> "none"]
NoPending == [socketId |-> 0, providerId |-> "none"]
IdleRoute == [pc |-> "idle", candidates |-> <<>>]
\* a call that is over goes back to its start and is routed again
DoneRoute_Retry == [pc |-> "idle", candidates |-> <<>>]
\* routeRequest has returned or thrown
DoneRoute == [pc |-> "done", candidates |-> <<>>]

\* silence (now - lastHeartbeat) is kept up to here; beyond, every comparison
\* of the code gives the same answer
SilenceCap == timeoutThreshold + MsPerTick
\* the same for the age of a pending record
ElapsedCap == requestTimeoutMs + MsPerTick

IdleSettlement == [pc |-> "idle", consumerId |-> 0, providerId |-> 0,
                   muleAmount |-> 0, platformFee |-> 0, transactionId |-> 0]
NothingApplied == [recorded |-> FALSE, debit |-> 0, credit |-> 0]
IdleCall == [pc |-> "idle", userId |-> 0]
\* the performance records kept, and those selection reads
HistoryLimit == 1000
RecentSlice == 10
\* a Provider document as the upsert creates it
NoPerformance == [history |-> <<>>, total_requests |-> 0]
\* getModelInfo is not called
NoClassification == [pc |-> "none", modelName |-> <<>>, tier |-> "none"]
\* no conversion is asked for
NoConversion == [pc |-> "none", tokens |-> 0, tier |-> "none", mules |-> 0, back |-> 0]
\* handleLLMRequest has not been called.  status and code are those of the
\* HTTP answer (0, "none": no answer yet); cost is transaction_mule_cost
IdleHandler == [pc |-> "idle", user |-> 0, model |-> <<>>, selectedModel |-> <<>>,
                socketId |-> 0, userId |-> "none", maxTokens |-> 0,
                usage |-> [prompt_tokens |-> 0, completion_tokens |-> 0, total_tokens |-> 0],
                status |-> 0, code |-> "none", cost |-> 0]

\* the broker, the store and the controller after construction
InitProgram ==
  /\ ws = [s \in Sessions |-> "NONE"]
  /\ providers = [s \in Sessions |-> NoProvider]
  /\ mapOrder = <<>>
  /\ providerUserIds = [s \in Sessions |-> "none"]
  /\ requestCounts = [s \in Sessions |-> -1]
  /\ requestQueue = [s \in Sessions |-> 0]
  /\ pingIntervals = {}
  /\ hbDue = {}
  /\ wsHandlers = [s \in Sessions |-> 0]
  /\ registers = 0
  /\ registerCalls = {}
  /\ probe = [s \in Sessions |-> "none"]
  /\ removed = {}
  /\ registeredOrder = <<>>
  /\ pendingRequests = [r \in Requests |-> NoPending]
  /\ timeoutHandle = {}
  /\ elapsed = [r \in Requests |-> 0]
  /\ route = [r \in Requests |-> IdleRoute]
  /\ outcome = [r \in Requests |-> "none"]
  /\ terminalEvents = [r \in Requests |-> 0]
  /\ delivered = [r \in Requests |-> FALSE]
  /\ sent = [r \in Requests |-> 0]
  /\ dropped = [r \in Requests |-> FALSE]
  /\ response = [r \in Requests |-> "none"]
  /\ topScorers = [r \in Requests |-> {}]
  /\ balanceRows = {}
  /\ performance = [a \in Accounts |-> NoPerformance]
  /\ balance = [a \in Accounts |-> 0]
  /\ transactions = <<>>
  /\ settlements = [j \in Jobs |-> IdleSettlement]
  /\ applied = [j \in Jobs |-> NothingApplied]
  /\ balanceCalls = [c \in Calls |-> IdleCall]
  /\ createdBy = [a \in Accounts |-> "none"]
  /\ handlers = [h \in Requests |-> IdleHandler]

Init ==
  /\ InitProgram
  /\ conversion = NoConversion
  /\ classification = NoClassification

\* ---------------------------------------------------------- the registry
\* Map.delete / Map.set on the key order
OrderWithout(s) == SelectSeq(mapOrder, LAMBDA x : x # s)
OrderWith(s) == IF providers[s] # NoProvider THEN mapOrder ELSE Append(mapOrder, s)

\* updateProviderStatus(socketId, status): this.providers after the call
updateProviderStatus(s, status) ==
  IF providers[s] # NoProvider
  THEN [providers EXCEPT ![s].status = status, ![s].silence = 0]
  ELSE providers

\* ws.terminate() and ws.close(): an open socket starts closing
terminate(s) == [ws EXCEPT ![s] = IF @ = "OPEN" THEN "CLOSING" ELSE @]

\* removeProvider without the terminate: clearHeartbeat and the three deletes
purge(s) ==
  /\ pingIntervals' = pingIntervals \ {s}
  /\ hbDue' = hbDue \ {s}
  /\ providers' = [providers EXCEPT ![s] = NoProvider]
  /\ mapOrder' = OrderWithout(s)
  /\ providerUserIds' = [providerUserIds EXCEPT ![s] = "none"]
  /\ requestCounts' = [requestCounts EXCEPT ![s] = -1]
  /\ removed' = IF providers[s] # NoProvider THEN removed \cup {s} ELSE removed
  /\ UNCHANGED registeredOrder

\* removeProvider(socketId); it leaves this.pendingRequests and
\* this.requestQueue as they are
removeProvider(s) ==
  /\ ws' = IF providers[s] # NoProvider THEN terminate(s) ELSE ws
  /\ purge(s)

\* ------------------------------------------------------ the session layer
\* wss.on('connection'): a fresh session id and its initial entry.  Ids are
\* handed out in order.
Connect(s) ==
  /\ ws[s] = "NONE"
  /\ \A t \in Sessions : t < s => ws[t] # "NONE"
  /\ ws' = [ws EXCEPT ![s] = "OPEN"]
  /\ providers' = [providers EXCEPT ![s] =
       [status |-> "connecting", readyForRequests |-> FALSE, silence |-> 0,
        models |-> <<>>, userId |-> "none"]]
  /\ mapOrder' = Append(mapOrder, s)
  /\ UNCHANGED << providerUserIds, requestCounts, requestQueue, pingIntervals, hbDue,
                  wsHandlers, registers, registerCalls, probe, removed,
                  registeredOrder >>
  /\ UNCHANGED requestVars
  /\ UNCHANGED ledgerVars
  /\ UNCHANGED controllerVars
  /\ UNCHANGED functionVars

\* ws.on('message'), case 'register', up to the await of User.findOne:
\* invalid data is answered with an error message and nothing else
RegisterMessage(s, key, models) ==
  /\ ws[s] = "OPEN"
  /\ registers < MaxRegisters
  /\ registers' = registers + 1
  /\ registerCalls' =
       IF key = "missing" THEN registerCalls
       ELSE registerCalls \cup {[socketId |-> s, n |-> registers + 1,
                                  apiKey |-> key, models |-> models]}
  /\ UNCHANGED << ws, wsHandlers, probe, requestQueue >>
  /\ UNCHANGED registryVars
  /\ UNCHANGED requestVars
  /\ UNCHANGED ledgerVars
  /\ UNCHANGED controllerVars
  /\ UNCHANGED functionVars

\* registerProvider after User.findOne, and the rest of case 'register'
RegisterResume(call) ==
  /\ call \in registerCalls
  /\ registerCalls' = registerCalls \ {call}
  /\ LET s == call.socketId
         user == UserOfKey(call.apiKey)
     IN IF user = "none"
        THEN \* return false; the handler sends an error and calls ws.close()
             /\ ws' = terminate(s)
             /\ UNCHANGED << wsHandlers >>
             /\ UNCHANGED registryVars
        ELSE \* providers.set, providerUserIds.set, requestCounts.set,
             \* setupWebSocketHandlers, startHeartbeatMonitor
             /\ providers' = [providers EXCEPT ![s] =
                  [status |-> "active", readyForRequests |-> TRUE, silence |-> 0,
                   models |-> call.models, userId |-> user]]
             /\ mapOrder' = OrderWith(s)
             /\ providerUserIds' = [providerUserIds EXCEPT ![s] = user]
             /\ requestCounts' = [requestCounts EXCEPT ![s] = 0]
             /\ wsHandlers' = [wsHandlers EXCEPT ![s] = @ + 1]
             /\ pingIntervals' = pingIntervals \cup {s}
             /\ hbDue' = hbDue \ {s}
             /\ registeredOrder' = IF \E i \in 1..Len(registeredOrder) : registeredOrder[i] = s
                                    THEN registeredOrder
                                    ELSE Append(registeredOrder, s)
             /\ UNCHANGED << ws, removed >>
  /\ UNCHANGED << registers, probe, requestQueue >>
  /\ UNCHANGED requestVars
  /\ UNCHANGED ledgerVars
  /\ UNCHANGED controllerVars
  /\ UNCHANGED functionVars

\* ws.on('pong') of server.js and of setupWebSocketHandlers: a transport pong
Pong(s) ==
  /\ ws[s] = "OPEN"
  /\ providers' = updateProviderStatus(s, "active")
  /\ UNCHANGED << mapOrder, providerUserIds, requestCounts, pingIntervals, hbDue, removed,
                  registeredOrder,
                  requestQueue >>
  /\ UNCHANGED sessionVars
  /\ UNCHANGED requestVars
  /\ UNCHANGED ledgerVars
  /\ UNCHANGED controllerVars
  /\ UNCHANGED functionVars

\* ws.on('message'), case 'pong': a pong sent as a message
PongMessage(s) ==
  /\ ws[s] = "OPEN"
  /\ providers' = updateProviderStatus(s, "active")
  /\ UNCHANGED << mapOrder, providerUserIds, requestCounts, pingIntervals, hbDue, removed,
                  registeredOrder,
                  requestQueue >>
  /\ UNCHANGED sessionVars
  /\ UNCHANGED requestVars
  /\ UNCHANGED ledgerVars
  /\ UNCHANGED controllerVars
  /\ UNCHANGED functionVars

\* the peer closes the connection, or the network drops it
Disconnect(s) ==
  /\ ws[s] = "OPEN"
  /\ ws' = terminate(s)
  /\ UNCHANGED << wsHandlers, registers, registerCalls, probe, requestQueue >>
  /\ UNCHANGED registryVars
  /\ UNCHANGED requestVars
  /\ UNCHANGED ledgerVars
  /\ UNCHANGED controllerVars
  /\ UNCHANGED functionVars

\* ws.on('close') of server.js and of setupWebSocketHandlers: removeProvider,
\* on a socket that is closed by now
CloseEvent(s) ==
  /\ ws[s] = "CLOSING"
  /\ ws' = [ws EXCEPT ![s] = "CLOSED"]
  /\ purge(s)
  /\ UNCHANGED << wsHandlers, registers, registerCalls, probe, requestQueue >>
  /\ UNCHANGED requestVars
  /\ UNCHANGED ledgerVars
  /\ UNCHANGED controllerVars
  /\ UNCHANGED functionVars

\* ws.on('error') of setupWebSocketHandlers
SocketError(s) ==
  /\ ws[s] = "OPEN"
  /\ wsHandlers[s] > 0
  /\ removeProvider(s)
  /\ UNCHANGED << wsHandlers, registers, registerCalls, probe, requestQueue >>
  /\ UNCHANGED requestVars
  /\ UNCHANGED ledgerVars
  /\ UNCHANGED controllerVars
  /\ UNCHANGED functionVars

\* ------------------------------------------------- the heartbeat monitor
\* the comparison as ">=": a provider is dropped at the threshold itself
timedOut_AtThreshold(s) == providers[s].silence >= timeoutThreshold

\* Date.now() - provider.lastHeartbeat > this.timeoutThreshold
timedOut(s) == providers[s].silence > timeoutThreshold

\* the setInterval callback of startHeartbeatMonitor.  ws 8's ping() does not
\* throw on a socket that is not open, so the catch is never entered.
HeartbeatTick(s) ==
  /\ s \in hbDue
  /\ IF providers[s] = NoProvider
     THEN /\ pingIntervals' = pingIntervals \ {s}
          /\ hbDue' = hbDue \ {s}
          /\ probe' = [probe EXCEPT ![s] = "cleared"]
          /\ UNCHANGED << ws, providers, mapOrder, providerUserIds, requestCounts, removed,
                          registeredOrder >>
     ELSE IF timedOut(s)
     THEN /\ removeProvider(s)
          /\ probe' = [probe EXCEPT ![s] = "removed"]
     ELSE /\ hbDue' = hbDue \ {s}
          /\ probe' = [probe EXCEPT ![s] = "ping"]
          /\ UNCHANGED << ws, providers, mapOrder, providerUserIds, requestCounts,
                          pingIntervals, removed, registeredOrder >>
  /\ UNCHANGED << wsHandlers, registers, registerCalls, requestQueue >>
  /\ UNCHANGED requestVars
  /\ UNCHANGED ledgerVars
  /\ UNCHANGED controllerVars
  /\ UNCHANGED functionVars

\* every entry's silence after one more heartbeat period
Older == [s \in Sessions |->
           IF providers[s] = NoProvider THEN NoProvider
           ELSE [providers[s] EXCEPT !.silence = Min(@ + MsPerTick, SilenceCap)]]

\* a timer set one period too long
timerDue_Late(r) == elapsed[r] >= requestTimeoutMs + MsPerTick

\* setTimeout(..., 300000): the timer of request r has run its time
timerDue(r) == elapsed[r] >= requestTimeoutMs

\* the age of every pending record and armed timer after one more period
Later == [r \in Requests |->
           IF pendingRequests[r] # NoPending \/ r \in timeoutHandle
           THEN Min(elapsed[r] + MsPerTick, ElapsedCap)
           ELSE elapsed[r]]

\* one heartbeat period passes: every interval becomes due.  The callbacks
\* that are due run before the next period ends, and so do the database
\* reads and socket writes a route call waits for.
Tick ==
  /\ hbDue = {}
  /\ \A r \in Requests : ~(r \in timeoutHandle /\ timerDue(r))
  /\ \A r \in Requests : route[r].pc \notin {"scoring", "sending"}
  /\ \/ \E s \in Sessions : providers[s] # NoProvider
     \/ \E r \in Requests : pendingRequests[r] # NoPending
  /\ providers' = Older
  /\ elapsed' = Later
  /\ hbDue' = pingIntervals
  /\ probe' = [s \in Sessions |-> "none"]
  /\ UNCHANGED << mapOrder, providerUserIds, requestCounts, pingIntervals, removed,
                  registeredOrder,
                  requestQueue >>
  /\ UNCHANGED << ws, wsHandlers, registers, registerCalls >>
  /\ UNCHANGED << pendingRequests, timeoutHandle, route, outcome, terminalEvents,
                  delivered, sent, dropped, response, topScorers >>
  /\ UNCHANGED ledgerVars
  /\ UNCHANGED controllerVars
  /\ UNCHANGED functionVars

SessionNext ==
  \/ \E s \in Sessions : Connect(s)
  \/ \E s \in Sessions : \E k \in ApiKeys(s), m \in ModelLists : RegisterMessage(s, k, m)
  \/ \E c \in registerCalls : RegisterResume(c)
  \/ \E s \in Sessions : Pong(s)
  \/ \E s \in Sessions : PongMessage(s)
  \/ \E s \in Sessions : Disconnect(s)
  \/ \E s \in Sessions : CloseEvent(s)
  \/ \E s \in Sessions : SocketError(s)

HeartbeatNext ==
  \/ \E s \in Sessions : HeartbeatTick(s)
  \/ Tick

\* ---------------------------------------------------------- the dispatcher
\* _checkModelCompatibility(providerModels, requestedModel)
_checkModelCompatibility(providerModels, requestedModel) ==
  IF requestedModel \in TierNames
  THEN \E i \in 1..Len(providerModels) :
         TierWord(ModelTier[providerModels[i]]) = requestedModel
  ELSE \E i \in 1..Len(providerModels) :
         _isExactModelMatch(providerModels[i], requestedModel)

\* the filter without its look at the socket's readyState
isEligible_AnySocket(s, requestedModel) ==
  /\ providers[s].status = "active"
  /\ providers[s].readyForRequests
  /\ requestQueue[s] < loadBalancingThreshold
  /\ _checkModelCompatibility(providers[s].models, requestedModel)

\* the filter of findAvailableProvider
isEligible(s, requestedModel) ==
  /\ providers[s].status = "active"
  /\ providers[s].readyForRequests
  /\ ws[s] = "OPEN"
  /\ requestQueue[s] < loadBalancingThreshold
  /\ _checkModelCompatibility(providers[s].models, requestedModel)

\* what findAvailableProvider holds of a provider across its await: the
\* session id and the account, and what the filter saw of the entry
Candidate(s, requestedModel) ==
  [socketId |-> s, userId |-> providers[s].userId,
   status |-> providers[s].status, readyForRequests |-> providers[s].readyForRequests,
   open |-> ws[s] = "OPEN", load |-> requestQueue[s],
   compatible |-> _checkModelCompatibility(providers[s].models, requestedModel),
   scored |-> FALSE, score |-> 0]

\* matchingProviders: the exact matches if there are any, else every
\* eligible provider, in the order of the Map
matchingProviders(requestedModel) ==
  LET eligible == SelectSeq(mapOrder, LAMBDA s : isEligible(s, requestedModel))
      exact == SelectSeq(eligible, LAMBDA s :
                 \E i \in 1..Len(providers[s].models) :
                   _isExactModelMatch(providers[s].models[i], requestedModel))
  IN IF exact # <<>> THEN exact ELSE eligible

\* _calculateProviderScore(load, tokensPerSecond), times 500
_calculateProviderScore(load, tokensPerSecond) ==
  (loadBalancingThreshold - load) * 60 + Min(tokensPerSecond, 100) * 2

\* scoredProviders.reduce((best, current) => current.score > best.score ? current : best)
RECURSIVE bestOf(_, _, _)
bestOf(cands, i, best) ==
  IF i > Len(cands) THEN best
  ELSE bestOf(cands, i + 1, IF cands[i].score > best.score THEN cands[i] ELSE best)

\* resolve / reject on the promise of the call: the first one settles it
settle(r, how) ==
  /\ outcome' = [outcome EXCEPT ![r] = IF @ = "none" THEN how ELSE @]
  /\ terminalEvents' = [terminalEvents EXCEPT ![r] = Min(@ + 1, MaxTerminalEvents)]

\* routeRequest and findAvailableProvider up to the await of
\* _selectOptimalProvider; with no eligible provider the call throws
RouteStart(r, requestedModel) ==
  /\ route[r].pc = "idle"
  /\ LET matching == matchingProviders(requestedModel)
     IN IF matching = <<>>
        THEN /\ route' = [route EXCEPT ![r] = DoneRoute]
             /\ outcome' = [outcome EXCEPT ![r] = "no_provider"]
        ELSE /\ route' = [route EXCEPT ![r] =
                  [pc |-> "scoring",
                   candidates |-> [i \in 1..Len(matching) |->
                                     Candidate(matching[i], requestedModel)]]]
             /\ UNCHANGED outcome
  /\ UNCHANGED << pendingRequests, timeoutHandle, elapsed, terminalEvents, delivered, sent,
                  dropped, response, topScorers >>
  /\ UNCHANGED << requestQueue >>
  /\ UNCHANGED registryVars
  /\ UNCHANGED sessionVars
  /\ UNCHANGED ledgerVars
  /\ UNCHANGED controllerVars
  /\ UNCHANGED functionVars

\* the lookup routeRequest makes before it sends: this.providers.get(socketId)
lookup(s) == providers[s]

\* the rest of findAvailableProvider and of routeRequest, once every
\* candidate has its score: reserve the best one, look it up again, arm the
\* timer, store the pending record and send
ReserveAndSend(r, cands) ==
  LET selected == bestOf(cands, 2, cands[1])
      s == selected.socketId
  IN /\ requestQueue' = [requestQueue EXCEPT ![s] = @ + 1]
     /\ topScorers' = [topScorers EXCEPT ![r] =
          {cands[i].socketId : i \in {k \in 1..Len(cands) :
                                       \A j \in 1..Len(cands) : cands[j].score <= cands[k].score}}]
     /\ IF lookup(s) = NoProvider
        THEN \* throw new Error('Provider WebSocket not available')
             /\ route' = [route EXCEPT ![r] = DoneRoute]
             /\ outcome' = [outcome EXCEPT ![r] = "ws_unavailable"]
             /\ UNCHANGED << pendingRequests, timeoutHandle, elapsed, terminalEvents, sent >>
        ELSE /\ sent' = [sent EXCEPT ![r] = s]
             /\ elapsed' = [elapsed EXCEPT ![r] = 0]
             /\ IF ws[s] = "OPEN"
                THEN /\ pendingRequests' = [pendingRequests EXCEPT ![r] =
                          [socketId |-> s, providerId |-> selected.userId]]
                     /\ timeoutHandle' = timeoutHandle \cup {r}
                     /\ route' = [route EXCEPT ![r] = [pc |-> "sending", candidates |-> <<>>]]
                     /\ UNCHANGED << outcome, terminalEvents >>
                ELSE \* the socket is not open: send's callback gets an error
                     /\ route' = [route EXCEPT ![r] = DoneRoute]
                     /\ settle(r, "rejected_send")
                     /\ UNCHANGED << pendingRequests, timeoutHandle >>

\* one candidate's _getProviderPerformance returns: its load is read now and
\* its score computed; the last one to return completes the selection
ScoreProvider(r, i, tps) ==
  /\ route[r].pc = "scoring"
  /\ i \in 1..Len(route[r].candidates)
  /\ ~route[r].candidates[i].scored
  /\ LET cands == [route[r].candidates EXCEPT
                     ![i].scored = TRUE,
                     ![i].score = _calculateProviderScore(
                                    requestQueue[route[r].candidates[i].socketId], tps)]
     IN IF \A j \in 1..Len(cands) : cands[j].scored
        THEN ReserveAndSend(r, cands)
        ELSE /\ route' = [route EXCEPT ![r].candidates = cands]
             /\ UNCHANGED << requestQueue, pendingRequests, timeoutHandle, elapsed, outcome,
                             terminalEvents, sent, topScorers >>
  /\ UNCHANGED << delivered, dropped, response >>
  /\ UNCHANGED registryVars
  /\ UNCHANGED sessionVars
  /\ UNCHANGED ledgerVars
  /\ UNCHANGED controllerVars
  /\ UNCHANGED functionVars

\* the callback of ws.send: the message was written, or the write failed
\* because the connection went down
SendCallback(r, ok) ==
  /\ route[r].pc = "sending"
  /\ ~ok => ws[sent[r]] # "OPEN"
  /\ IF ok
     THEN /\ delivered' = [delivered EXCEPT ![r] = TRUE]
          /\ route' = [route EXCEPT ![r].pc = "awaiting"]
          /\ UNCHANGED << pendingRequests, timeoutHandle, outcome, terminalEvents >>
     ELSE /\ timeoutHandle' = timeoutHandle \ {r}
          /\ pendingRequests' = [pendingRequests EXCEPT ![r] = NoPending]
          /\ settle(r, "rejected_send")
          /\ route' = [route EXCEPT ![r] = DoneRoute]
          /\ UNCHANGED delivered
  /\ UNCHANGED << elapsed, sent, dropped, response, topScorers, requestQueue >>
  /\ UNCHANGED registryVars
  /\ UNCHANGED sessionVars
  /\ UNCHANGED ledgerVars
  /\ UNCHANGED controllerVars
  /\ UNCHANGED functionVars

\* the lookup without its test: every request id counts as pending
isPending_Always(r) == TRUE

\* handleCompletionResponse: this.pendingRequests.get(requestId) found a record
isPending(r) == pendingRequests[r] # NoPending

\* this.requestQueue after handleCompletionResponse's update of the count
released(s) == [requestQueue EXCEPT ![s] = Max(0, (IF @ = 0 THEN 1 ELSE @) - 1)]

\* handleCompletionResponse(requestId, response), called for a
\* completion_response message that arrives on connection s.  A message
\* without a response makes response.usage throw: the catch rejects and
\* leaves the record and its timer in place.
CompletionResponse(s, r, kind) ==
  /\ ws[s] = "OPEN"
  /\ delivered[r]
  /\ IF ~isPending(r)
     THEN /\ dropped' = [dropped EXCEPT ![r] = TRUE]
          /\ UNCHANGED << requestQueue, pendingRequests, timeoutHandle, outcome,
                          terminalEvents, route, response >>
     ELSE /\ UNCHANGED dropped
          /\ requestQueue' = released(pendingRequests[r].socketId)
          /\ route' = [route EXCEPT ![r] = DoneRoute]
          /\ IF kind = "missing"
             THEN /\ settle(r, "rejected_bad_response")
                  /\ UNCHANGED << pendingRequests, timeoutHandle, response >>
             ELSE /\ timeoutHandle' = timeoutHandle \ {r}
                  /\ pendingRequests' = [pendingRequests EXCEPT ![r] = NoPending]
                  /\ settle(r, "resolved")
                  /\ response' = [response EXCEPT ![r] = IF outcome[r] = "none" THEN kind ELSE @]
  /\ UNCHANGED << elapsed, delivered, sent, topScorers >>
  /\ UNCHANGED registryVars
  /\ UNCHANGED sessionVars
  /\ UNCHANGED ledgerVars
  /\ UNCHANGED controllerVars
  /\ UNCHANGED functionVars

\* the setTimeout callback of routeRequest, whenever it runs.  ws.send's
\* callback comes within seconds, so the timer does not fire before it.
RequestTimeout(r) ==
  /\ r \in timeoutHandle
  /\ route[r].pc # "sending"
  /\ timeoutHandle' = timeoutHandle \ {r}
  /\ requestCounts' = [requestCounts EXCEPT ![pendingRequests[r].socketId] =
                         (IF @ <= 0 THEN 1 ELSE @) - 1]
  /\ pendingRequests' = [pendingRequests EXCEPT ![r] = NoPending]
  /\ settle(r, "rejected_timeout")
  /\ route' = [route EXCEPT ![r] = DoneRoute]
  /\ UNCHANGED << elapsed, delivered, sent, dropped, response, topScorers, requestQueue >>
  /\ UNCHANGED << providers, mapOrder, providerUserIds, pingIntervals, hbDue, removed,
                  registeredOrder >>
  /\ UNCHANGED sessionVars
  /\ UNCHANGED ledgerVars
  /\ UNCHANGED controllerVars
  /\ UNCHANGED functionVars

\* the call is over and nothing of it is left: the next call takes a fresh id
Recycle(r) ==
  /\ route[r].pc = "done"
  /\ pendingRequests[r] = NoPending
  /\ r \notin timeoutHandle
  /\ route' = [route EXCEPT ![r] = IdleRoute]
  /\ outcome' = [outcome EXCEPT ![r] = "none"]
  /\ terminalEvents' = [terminalEvents EXCEPT ![r] = 0]
  /\ delivered' = [delivered EXCEPT ![r] = FALSE]
  /\ sent' = [sent EXCEPT ![r] = 0]
  /\ dropped' = [dropped EXCEPT ![r] = FALSE]
  /\ response' = [response EXCEPT ![r] = "none"]
  /\ topScorers' = [topScorers EXCEPT ![r] = {}]
  /\ elapsed' = [elapsed EXCEPT ![r] = 0]
  /\ UNCHANGED << pendingRequests, timeoutHandle, requestQueue >>
  /\ UNCHANGED registryVars
  /\ UNCHANGED sessionVars
  /\ UNCHANGED ledgerVars
  /\ UNCHANGED controllerVars
  /\ UNCHANGED functionVars

\* a route call up to its await for the response, and the response
RouteNext ==
  \/ \E r \in Requests, m \in AskedModels : RouteStart(r, m)
  \/ \E r \in Requests, i \in 1..NumSessions, tps \in TpsValues : ScoreProvider(r, i, tps)
  \/ \E r \in Requests, ok \in BOOLEAN : SendCallback(r, ok)
  \/ \E s \in Sessions, r \in Requests, k \in ResponseKinds : CompletionResponse(s, r, k)

\* --------------------------------------------------------------- the ledger
\* TokenService (services/tokenService.js) over the Balance and Transaction
\* collections.  One action is one stretch of an async method up to and
\* including the store call it awaits; the store applies one call at a time
\* to one document.  An amount is a whole number of 10^-6 MULE.

\* usage.totalTokens and modelTier of the settlements of one run
TokenCounts == {0, 15}
SettlementTiers == {"small", "medium"}

\* (num / den).toFixed(6), in units: the nearest unit, a tie going up (a
\* whole number of units where den divides the unit)
toFixed6(num, den) ==
  IF MuleUnit % den = 0 THEN num * (MuleUnit \div den)
  ELSE (2 * num * MuleUnit + den) \div (2 * den)

\* TokenCalculator.tokensToMules; tokens is a number >= 0 here
tokensToMules(tokens, tier) ==
  IF tokens < 0 THEN 0
  ELSE IF tier \notin DOMAIN conversion_rates THEN 0
  ELSE toFixed6(tokens, conversion_rates[tier])

\* TokenCalculator.calculatePlatformFee: the fee rate's share of the amount,
\* rounded to six decimals
calculatePlatformFee(muleAmount) == (2 * muleAmount * platform_fee + 100) \div 200

\* consumerId.toString() === providerId?.toString()
isSelfService(consumerId, providerId) == consumerId = providerId

providerAmount_Gross(muleAmount, platformFee) == muleAmount
\* _updateBalances: const providerAmount = muleAmount - platformFee
providerAmount(muleAmount, platformFee) == muleAmount - platformFee

inc_Set(current, delta) == delta
\* the store's $inc on the balance field of one document
inc(current, delta) == current + delta

\* processUsage up to Transaction.create.  The caller has a user id for the
\* consumer and for the provider (logUsage: 'Missing required IDs') and has
\* read the consumer's balance with getBalance before the request was routed.
\* ok: the store carries the insert out.
ProcessUsage(j, consumerId, providerId, totalTokens, modelTier, ok) ==
  /\ settlements[j].pc = "idle"
  /\ consumerId \in balanceRows
  /\ LET muleAmount == tokensToMules(totalTokens, modelTier)
         platformFee == calculatePlatformFee(muleAmount)
         self == isSelfService(consumerId, providerId)
         transactionData == [transactionType |-> IF self THEN "self_service" ELSE "consumption",
                             consumerId |-> consumerId,
                             providerId |-> IF self THEN 0 ELSE providerId,
                             muleAmount |-> muleAmount,
                             platformFee |-> platformFee,
                             welcome |-> FALSE]
     IN IF ok
        THEN /\ transactions' = Append(transactions, transactionData)
             /\ applied' = [applied EXCEPT ![j].recorded = TRUE]
             /\ settlements' = [settlements EXCEPT ![j] =
                  [pc |-> IF self THEN "done" ELSE "recorded",
                   consumerId |-> consumerId, providerId |-> providerId,
                   muleAmount |-> muleAmount, platformFee |-> platformFee,
                   transactionId |-> Len(transactions) + 1]]
        ELSE /\ settlements' = [settlements EXCEPT ![j] =
                  [pc |-> "failed",
                   consumerId |-> consumerId, providerId |-> providerId,
                   muleAmount |-> muleAmount, platformFee |-> platformFee,
                   transactionId |-> 0]]
             /\ UNCHANGED << transactions, applied >>
  /\ UNCHANGED << balanceRows, balance, balanceCalls, createdBy >>
  /\ UNCHANGED performance
  /\ UNCHANGED brokerVars
  /\ UNCHANGED controllerVars
  /\ UNCHANGED functionVars

updatesBalances_Always(self, muleAmount) == ~self
\* processUsage's test before _updateBalances: !isSelfService && muleAmount > 0
updatesBalances(self, muleAmount) == ~self /\ muleAmount > 0

\* the performance field after updateProviderMetrics: $push of the sample
\* (told by its timestamp, its place in push order), $inc of total_requests,
\* then $pop of the oldest record when more than 1000 are kept
updateProviderMetrics_NoTrim(doc) ==
  [history |-> Append(doc.history, [timestamp |-> doc.total_requests + 1]),
   total_requests |-> doc.total_requests + 1]
updateProviderMetrics(doc) ==
  LET pushed == Append(doc.history, [timestamp |-> doc.total_requests + 1])
  IN [history |-> IF Len(pushed) > HistoryLimit THEN Tail(pushed) ELSE pushed,
      total_requests |-> doc.total_requests + 1]

\* _getProviderPerformance's projection { 'performance.history': { $slice: -10 } }
recentPerformance(doc) ==
  IF Len(doc.history) <= RecentSlice THEN doc.history
  ELSE SubSeq(doc.history, Len(doc.history) - RecentSlice + 1, Len(doc.history))

\* processUsage after Transaction.create: updateProviderMetrics writes the
\* Provider collection; an error in it is thrown on.  With a zero amount the
\* balances are not touched.
UpdateProviderMetrics(j, ok) ==
  /\ settlements[j].pc = "recorded"
  /\ settlements' = [settlements EXCEPT ![j].pc =
       IF ~ok THEN "failed"
       ELSE IF updatesBalances(FALSE, settlements[j].muleAmount) THEN "measured" ELSE "done"]
  /\ performance' = IF ok THEN [performance EXCEPT ![settlements[j].providerId] =
                                  updateProviderMetrics(@)]
                    ELSE performance
  /\ UNCHANGED << balanceRows, balance, transactions, applied, balanceCalls, createdBy >>
  /\ UNCHANGED brokerVars
  /\ UNCHANGED controllerVars
  /\ UNCHANGED functionVars

\* _updateBalances, step 1: findOneAndUpdate on the consumer's document,
\* without upsert; no document is 'Consumer balance not found'
DebitConsumer(j, ok) ==
  /\ settlements[j].pc = "measured"
  /\ LET c == settlements[j].consumerId
         m == settlements[j].muleAmount
     IN IF ok /\ c \in balanceRows
        THEN /\ balance' = [balance EXCEPT ![c] = inc(balance[c], -m)]
             /\ applied' = [applied EXCEPT ![j].debit = m]
             /\ settlements' = [settlements EXCEPT ![j].pc = "debited"]
        ELSE /\ settlements' = [settlements EXCEPT ![j].pc = "failed"]
             /\ UNCHANGED << balance, applied >>
  /\ UNCHANGED << balanceRows, transactions, balanceCalls, createdBy >>
  /\ UNCHANGED performance
  /\ UNCHANGED brokerVars
  /\ UNCHANGED controllerVars
  /\ UNCHANGED functionVars

\* _updateBalances, step 2: findOneAndUpdate on the provider's document with
\* upsert: a missing document is inserted and $inc counts from nothing
CreditProvider(j, ok) ==
  /\ settlements[j].pc = "debited"
  /\ LET p == settlements[j].providerId
         amount == providerAmount(settlements[j].muleAmount, settlements[j].platformFee)
     IN IF ok
        THEN /\ balance' = [balance EXCEPT ![p] = inc(balance[p], amount)]
             /\ balanceRows' = balanceRows \cup {p}
             /\ createdBy' = IF p \in balanceRows THEN createdBy
                             ELSE [createdBy EXCEPT ![p] = "credit"]
             /\ applied' = [applied EXCEPT ![j].credit = amount]
             /\ settlements' = [settlements EXCEPT ![j].pc = "done"]
        ELSE /\ settlements' = [settlements EXCEPT ![j].pc = "failed"]
             /\ UNCHANGED << balance, balanceRows, createdBy, applied >>
  /\ UNCHANGED << transactions, balanceCalls >>
  /\ UNCHANGED performance
  /\ UNCHANGED brokerVars
  /\ UNCHANGED controllerVars
  /\ UNCHANGED functionVars

\* getBalance: Balance.findOne; a miss goes on to initializeBalance
GetBalance(c, userId) ==
  /\ balanceCalls[c].pc = "idle"
  /\ balanceCalls' = [balanceCalls EXCEPT ![c] =
       [pc |-> IF userId \in balanceRows THEN "done" ELSE "initialize", userId |-> userId]]
  /\ UNCHANGED << balanceRows, balance, transactions, settlements, applied, createdBy >>
  /\ UNCHANGED performance
  /\ UNCHANGED brokerVars
  /\ UNCHANGED controllerVars
  /\ UNCHANGED functionVars

\* initializeBalance: its own Balance.findOne
InitializeFind(c) ==
  /\ balanceCalls[c].pc = "initialize"
  /\ balanceCalls' = [balanceCalls EXCEPT ![c].pc =
       IF balanceCalls[c].userId \in balanceRows THEN "done" ELSE "upsert"]
  /\ UNCHANGED << balanceRows, balance, transactions, settlements, applied, createdBy >>
  /\ UNCHANGED performance
  /\ UNCHANGED brokerVars
  /\ UNCHANGED controllerVars
  /\ UNCHANGED functionVars

\* initializeBalance: findOneAndUpdate with $setOnInsert and upsert, which
\* answers with the document as it is after the call; then the test
\* balance.balance === welcome_amount.  duplicateKey: the upsert lost the race
\* for the unique index (error 11000) and the catch branch fetched the
\* other call's document.
InitializeUpsert(c, duplicateKey) ==
  /\ balanceCalls[c].pc = "upsert"
  /\ LET u == balanceCalls[c].userId
         found == u \in balanceRows
         after == IF found THEN balance[u] ELSE welcome_amount
     IN /\ duplicateKey => found
        /\ balanceRows' = balanceRows \cup {u}
        /\ balance' = [balance EXCEPT ![u] = after]
        /\ createdBy' = IF found THEN createdBy ELSE [createdBy EXCEPT ![u] = "welcome"]
        /\ balanceCalls' = [balanceCalls EXCEPT ![c].pc =
             IF ~duplicateKey /\ after = welcome_amount THEN "bonus" ELSE "done"]
  /\ UNCHANGED << transactions, settlements, applied >>
  /\ UNCHANGED performance
  /\ UNCHANGED brokerVars
  /\ UNCHANGED controllerVars
  /\ UNCHANGED functionVars

\* initializeBalance: Transaction.create of the welcome deposit
WelcomeTransaction(c) ==
  /\ balanceCalls[c].pc = "bonus"
  /\ transactions' = Append(transactions,
       [transactionType |-> "deposit", consumerId |-> balanceCalls[c].userId,
        providerId |-> 0, muleAmount |-> welcome_amount, platformFee |-> 0,
        welcome |-> TRUE])
  /\ balanceCalls' = [balanceCalls EXCEPT ![c].pc = "done"]
  /\ UNCHANGED << balanceRows, balance, settlements, applied, createdBy >>
  /\ UNCHANGED performance
  /\ UNCHANGED brokerVars
  /\ UNCHANGED controllerVars
  /\ UNCHANGED functionVars

LedgerNext ==
  \/ \E j \in Jobs, consumerId \in Accounts, providerId \in Accounts,
        totalTokens \in TokenCounts, modelTier \in SettlementTiers, ok \in BOOLEAN :
       ProcessUsage(j, consumerId, providerId, totalTokens, modelTier, ok)
  \/ \E j \in Jobs, ok \in BOOLEAN : UpdateProviderMetrics(j, ok)
  \/ \E j \in Jobs, ok \in BOOLEAN : DebitConsumer(j, ok)
  \/ \E j \in Jobs, ok \in BOOLEAN : CreditProvider(j, ok)
  \/ \E c \in Calls, userId \in Accounts : GetBalance(c, userId)
  \/ \E c \in Calls : InitializeFind(c)
  \/ \E c \in Calls, duplicateKey \in BOOLEAN : InitializeUpsert(c, duplicateKey)
  \/ \E c \in Calls : WelcomeTransaction(c)


\* ------------------------------------ the controller (llmController.js)
\* handleLLMRequest call h routes as request h, settles as job h and reads
\* the balance as call h.

\* the account of a provider entry's userId (0: the entry has none)
AccountOf(userId) == CASE userId = "u1" -> 1 [] userId = "u2" -> 2 [] OTHER -> 0

\* req.body.model, req.body.max_tokens (0: not given) and the usage a
\* provider reports in its response
ControllerModels == {TierMedium, AskMistral, AskAddressed} \cup CombinedSelectors
ControllerModelLists == { <<Mistral7b>>, <<OpenChat>>, <<AskMistral>> }
MaxTokensValues == {0, 1000000}
UsageValues ==
  { [prompt_tokens |-> 0, completion_tokens |-> 0, total_tokens |-> 0],
    [prompt_tokens |-> 10, completion_tokens |-> 5, total_tokens |-> 0],
    [prompt_tokens |-> 10, completion_tokens |-> 5, total_tokens |-> 15] }
NoUsage == [prompt_tokens |-> 0, completion_tokens |-> 0, total_tokens |-> 0]

\* ModelManager.createModelInfo(tier).context
context(tier) ==
  CASE tier = "small" -> 4096
    [] tier = "medium" -> 8192
    [] tier = "large" -> 32768
    [] tier = "xl" -> 32768
    [] OTHER -> 8192

\* selectModelAndProvider's filters over getProvidersInfo(): the sessions a
\* tier request, or a request for a model, may be given to
matchingModels(s, requestedModel) ==
  SelectSeq(providers[s].models, LAMBDA m : TierWord(ModelTier[m]) = requestedModel)

eligibleProviders(requestedModel) ==
  IF requestedModel \in TierNames
  THEN {s \in Sessions : /\ providers[s].status = "active"
                         /\ matchingModels(s, requestedModel) # <<>>}
  ELSE {s \in Sessions : /\ providers[s].status = "active"
                         /\ \E i \in 1..Len(providers[s].models) :
                              ModelTier[providers[s].models[i]] = ModelTier[requestedModel]}

\* the HTTP answers: res.json(formattedResponse) and handleError's mapping of
\* error.code (an error without a known code is a 500)
Answer(h, status, code, cost) ==
  [handlers EXCEPT ![h].pc = "responded", ![h].status = status,
                   ![h].code = code, ![h].cost = cost]

handleError(h, code) ==
  CASE code = "NO_MODELS_AVAILABLE" -> Answer(h, 400, "model_not_available", 0)
    [] code = "INSUFFICIENT_BALANCE" -> Answer(h, 402, "insufficient_balance", 0)
    [] code = "INVALID_MODEL" -> Answer(h, 400, "invalid_model", 0)
    [] OTHER -> Answer(h, 500, "internal_error", 0)

\* handleLLMRequest up to the await of getBalance: selectModelAndProvider
\* picks one of the eligible providers at random (selected)
HandleLLMRequest(h, user, model, maxTokens, selected) ==
  /\ handlers[h].pc = "idle"
  /\ LET called == [handlers[h] EXCEPT !.user = user, !.model = model,
                                       !.maxTokens = maxTokens]
     IN IF model \notin TierNames /\ ModelTier[model] = "null"
        THEN /\ selected = 0
             /\ handlers' = [handleError(h, "INVALID_MODEL") EXCEPT
                  ![h].user = user, ![h].model = model, ![h].maxTokens = maxTokens]
        ELSE IF eligibleProviders(model) = {}
        THEN /\ selected = 0
             /\ handlers' = [handleError(h, "NO_MODELS_AVAILABLE") EXCEPT
                  ![h].user = user, ![h].model = model, ![h].maxTokens = maxTokens]
        ELSE /\ selected \in eligibleProviders(model)
             /\ handlers' = [handlers EXCEPT ![h] =
                  [called EXCEPT
                     !.pc = "balance",
                     !.selectedModel = IF model \in TierNames
                                       THEN matchingModels(selected, model)[1]
                                       ELSE model,
                     !.socketId = selected,
                     !.userId = providers[selected].userId]]
  /\ UNCHANGED brokerVars
  /\ UNCHANGED ledgerVars
  /\ UNCHANGED functionVars

\* estimatedTokens = req.body.max_tokens || modelInfo.context
estimatedCost(h) ==
  LET tier == ModelTier[handlers[h].selectedModel]
  IN tokensToMules(IF handlers[h].maxTokens # 0 THEN handlers[h].maxTokens
                   ELSE context(tier), tier)

insufficient_Never(h) == FALSE
\* userBalance.balance < estimatedCost
insufficient(h) == balance[handlers[h].user] < estimatedCost(h)

\* getBalance has returned
balanceRead(h) == handlers[h].pc = "balance" /\ balanceCalls[h].pc = "done"

\* the throw of INSUFFICIENT_BALANCE and its answer
RejectBalance(h) ==
  /\ balanceRead(h)
  /\ insufficient(h)
  /\ handlers' = handleError(h, "INSUFFICIENT_BALANCE")
  /\ UNCHANGED brokerVars
  /\ UNCHANGED ledgerVars
  /\ UNCHANGED functionVars

\* processLLMRequest calls routeRequest with the selected model; the
\* providerId it passes is not read by routeRequest
StartRoute(h) ==
  /\ balanceRead(h)
  /\ ~insufficient(h)
  /\ RouteStart(h, handlers[h].selectedModel)

\* processLLMRequest's checks of the response
validResponse(kind) == kind \in {"usage", "nousage"}

\* calculateUsage(response, modelInfo)
calculateUsage(usage) ==
  IF usage.total_tokens = 0
  THEN [usage EXCEPT !.total_tokens = usage.prompt_tokens + usage.completion_tokens]
  ELSE usage

\* handleLLMRequest after routeRequest has returned or thrown.  reported: the
\* usage object of a response that has one.  A thrown error is rethrown by
\* processLLMRequest as an object without a code.
ProcessLLMResponse(h, reported) ==
  /\ balanceRead(h)
  /\ route[h].pc = "done"
  /\ IF outcome[h] = "resolved" /\ validResponse(response[h])
     THEN LET usage == calculateUsage(IF response[h] = "usage" THEN reported ELSE NoUsage)
          IN /\ response[h] = "nousage" => reported = NoUsage
             /\ IF handlers[h].userId # "none"
                THEN handlers' = [handlers EXCEPT ![h].pc = "settling", ![h].usage = usage]
                ELSE handlers' = [Answer(h, 200, "none",
                                    tokensToMules(usage.total_tokens,
                                                  ModelTier[handlers[h].selectedModel]))
                                  EXCEPT ![h].usage = usage]
     ELSE /\ reported = NoUsage
          /\ handlers' = handleError(h, "none")
  /\ UNCHANGED brokerVars
  /\ UNCHANGED ledgerVars
  /\ UNCHANGED functionVars

\* logUsage calls processUsage with the consumer, the account of the provider
\* that selectModelAndProvider picked, and the tier of the selected model
LogUsage(h, ok) ==
  /\ handlers[h].pc = "settling"
  /\ ProcessUsage(h, handlers[h].user, AccountOf(handlers[h].userId),
                  handlers[h].usage.total_tokens,
                  ModelTier[handlers[h].selectedModel], ok)

\* handleLLMRequest after logUsage: an error of processUsage is rethrown by
\* logUsage and caught by handleLLMRequest; otherwise formatResponse
Respond(h) ==
  /\ handlers[h].pc = "settling"
  /\ settlements[h].pc \in {"done", "failed"}
  /\ handlers' =
       IF settlements[h].pc = "failed" THEN handleError(h, "none")
       ELSE Answer(h, 200, "none",
                   IF isSelfService(handlers[h].user, AccountOf(handlers[h].userId))
                   THEN 0
                   ELSE tokensToMules(handlers[h].usage.total_tokens,
                                      ModelTier[handlers[h].selectedModel]))
  /\ UNCHANGED brokerVars
  /\ UNCHANGED ledgerVars
  /\ UNCHANGED functionVars

\* -------------------------------------- TokenCalculator (config/tokenomics.js)
\* the token counts and tiers the conversions are run on
MaxTokens == 60
MaxSamples == 1002
Tiers == {"small", "medium", "large", "xl"}

mulesToTokens_Above(mules, tier) ==
  IF mules < 0 THEN {0}
  ELSE IF tier \notin DOMAIN conversion_rates THEN {0}
  ELSE LET product == mules * conversion_rates[tier]
       IN {product \div MuleUnit, product \div MuleUnit + 1}
\* TokenCalculator.mulesToTokens: Math.floor(mules * rate), for an amount
\* given in units.  The amount is the double next to units / 10^6 and the
\* product is rounded to a double: where the exact product is a whole number
\* the double may lie just below it, and the floor is then one less.
mulesToTokens(mules, tier) ==
  IF mules < 0 THEN {0}
  ELSE IF tier \notin DOMAIN conversion_rates THEN {0}
  ELSE LET product == mules * conversion_rates[tier]
       IN IF product % MuleUnit = 0 /\ product > 0
          THEN {product \div MuleUnit - 1, product \div MuleUnit}
          ELSE {product \div MuleUnit}

\* tokensToMules is called
ToMules ==
  /\ conversion.pc = "asked"
  /\ conversion' = [conversion EXCEPT
       !.pc = "mules", !.mules = tokensToMules(conversion.tokens, conversion.tier)]
  /\ UNCHANGED << brokerVars, ledgerVars, controllerVars, classification >>

\* mulesToTokens is called on the result
ToTokens(back) ==
  /\ conversion.pc = "mules"
  /\ back \in mulesToTokens(conversion.mules, conversion.tier)
  /\ conversion' = [conversion EXCEPT !.pc = "tokens", !.back = back]
  /\ UNCHANGED << brokerVars, ledgerVars, controllerVars, classification >>

\* ----------------------------------------- ModelManager (config/models.js)
\* the identifiers getModelInfo is called with: a selector, a family, a
\* variant and a handle, each of which may be missing
ModelIdentifiers ==
  LET SelectorParts == { <<>>, <<"s","m","a","l","l","|">>, <<"m","e","d","i","u","m","|">>,
                         <<"m","i","s","t","r","a","l","|">>, <<"g","p","t","|">> }
      FamilyParts == { <<>>, <<"p","h","i">>, <<"m","i","s","t","r","a","l">>,
                       <<"l","l","a","m","a","2">>, <<"t","i","n","y","l","l","a","m","a">>,
                       <<"M","e","d","i","u","m">> }
      VariantParts == { <<>>, <<"-","3">>, <<":","7","b">>, <<"-","7","0","b">>,
                        <<"-","m","i","n","i">> }
      HandleParts == { <<>>, <<"@","u","s","e","r","_","1">> }
  IN { a \o b \o c \o d : a \in SelectorParts, b \in FamilyParts,
                         c \in VariantParts, d \in HandleParts }

\* getModelInfo is called
Classify ==
  /\ classification.pc = "asked"
  /\ classification' = [classification EXCEPT
       !.pc = "done", !.tier = getModelInfo(classification.modelName)]
  /\ UNCHANGED << brokerVars, ledgerVars, controllerVars, conversion >>

\* updateProviderMetrics(providerId, performance), one call after another
RecordSample(a) ==
  /\ performance[a].total_requests < MaxSamples
  /\ performance' = [performance EXCEPT ![a] = updateProviderMetrics(@)]
  /\ UNCHANGED << balanceRows, balance, transactions, settlements, applied,
                  balanceCalls, createdBy >>
  /\ UNCHANGED brokerVars
  /\ UNCHANGED controllerVars
  /\ UNCHANGED functionVars

\* ------------------------------------------------------ the specifications
\* Spec: the session layer and NumRequests route calls, without a clock: a
\* request's timer may fire at any moment after the send.
Next ==
  \/ SessionNext
  \/ RouteNext
  \/ \E r \in Requests : RequestTimeout(r)

Spec == Init /\ [][Next]_vars

\* SpecRegistry: the session layer and the heartbeat monitor, with the clock
NextRegistry == SessionNext \/ HeartbeatNext

SpecRegistry == Init /\ [][NextRegistry]_vars

\* SpecLoad: one provider and any number of route calls, one after the
\* other in NumRequests slots, without a clock
NextLoad ==
  \/ Connect(1)
  \/ RegisterMessage(1, KeyOf(1), <<Mistral7b>>)
  \/ \E c \in registerCalls : RegisterResume(c)
  \/ RouteNext
  \/ \E r \in Requests : RequestTimeout(r)
  \/ \E r \in Requests : Recycle(r)

SpecLoad == Init /\ [][NextLoad]_vars

\* SpecDeadline: one provider, its heartbeat monitor and NumRequests route
\* calls, with the clock: a request's timer fires when its time has run, and
\* a provider that stops answering is removed by the monitor
NextDeadline ==
  \/ Connect(1)
  \/ RegisterMessage(1, KeyOf(1), <<Mistral7b>>)
  \/ \E c \in registerCalls : RegisterResume(c)
  \/ Pong(1)
  \/ CloseEvent(1)
  \/ HeartbeatNext
  \/ \E r \in Requests : RouteStart(r, TierMedium)
  \/ \E r \in Requests, tps \in TpsValues : ScoreProvider(r, 1, tps)
  \/ \E r \in Requests, ok \in BOOLEAN : SendCallback(r, ok)
  \/ \E r \in Requests, k \in {"usage", "missing"} : CompletionResponse(1, r, k)
  \/ \E r \in Requests : timerDue(r) /\ RequestTimeout(r)

SpecDeadline == Init /\ [][NextDeadline]_vars

\* SpecController: one handleLLMRequest call of account 1, between two
\* providers that register once each, with the store behind it
ControllerRequests == {1}
ControllerKinds == {"usage", "nousage", "nochoices", "missing"}

NextController ==
  \/ \E s \in Sessions : Connect(s)
  \/ \E s \in Sessions, models \in ControllerModelLists :
       providers[s].status = "connecting" /\ RegisterMessage(s, KeyOf(s), models)
  \/ \E c \in registerCalls : RegisterResume(c)
  \/ \E h \in ControllerRequests, model \in ControllerModels,
        maxTokens \in MaxTokensValues, selected \in Sessions \cup {0} :
       HandleLLMRequest(h, 1, model, maxTokens, selected)
  \/ \E h \in ControllerRequests : handlers[h].pc = "balance" /\ GetBalance(h, handlers[h].user)
  \/ \E h \in ControllerRequests : InitializeFind(h)
  \/ \E h \in ControllerRequests : InitializeUpsert(h, FALSE)
  \/ \E h \in ControllerRequests : WelcomeTransaction(h)
  \/ \E h \in ControllerRequests : RejectBalance(h)
  \/ \E h \in ControllerRequests : StartRoute(h)
  \/ \E h \in ControllerRequests, i \in 1..NumSessions, tps \in TpsValues :
       ScoreProvider(h, i, tps)
  \/ \E h \in ControllerRequests, ok \in BOOLEAN : SendCallback(h, ok)
  \/ \E s \in Sessions, h \in ControllerRequests, kind \in ControllerKinds :
       CompletionResponse(s, h, kind)
  \/ \E h \in ControllerRequests : RequestTimeout(h)
  \/ \E h \in ControllerRequests, reported \in UsageValues : ProcessLLMResponse(h, reported)
  \/ \E h \in ControllerRequests, ok \in BOOLEAN : LogUsage(h, ok)
  \/ \E h \in ControllerRequests, ok \in BOOLEAN : UpdateProviderMetrics(h, ok)
  \/ \E h \in ControllerRequests, ok \in BOOLEAN : DebitConsumer(h, ok)
  \/ \E h \in ControllerRequests, ok \in BOOLEAN : CreditProvider(h, ok)
  \/ \E h \in ControllerRequests : Respond(h)

SpecController == Init /\ [][NextController]_vars

\* SpecConversion: tokensToMules and mulesToTokens on every token count up to
\* MaxTokens in every tier
InitConversion ==
  /\ InitProgram
  /\ conversion \in [pc : {"asked"}, tokens : 0..MaxTokens, tier : Tiers,
                     mules : {0}, back : {0}]
  /\ classification = NoClassification

NextConversion ==
  \/ ToMules
  \/ \E back \in 0..MaxTokens : ToTokens(back)

SpecConversion == InitConversion /\ [][NextConversion]_vars

\* SpecClassifier: getModelInfo on every identifier of ModelIdentifiers
InitClassifier ==
  /\ InitProgram
  /\ conversion = NoConversion
  /\ classification \in [pc : {"asked"}, modelName : ModelIdentifiers, tier : {"none"}]

SpecClassifier == InitClassifier /\ [][Classify]_vars

\* SpecHistory: the samples of one provider account
SpecHistory == Init /\ [][RecordSample(1)]_vars

\* SpecLedger: NumSettlements processUsage calls and NumBalanceCalls
\* getBalance calls over NumAccounts accounts, in any interleaving
NextLedger == LedgerNext

SpecLedger == Init /\ [][NextLedger]_vars

\* ================================================================ the claims
\* this step of route call r invokes send() on a socket, of session sent'[r]
Sends(r) == sent[r] = 0 /\ sent'[r] # 0
\* this step makes the first resolve / reject of call r's promise
Terminates(r) == terminalEvents[r] = 0 /\ terminalEvents'[r] > 0
\* this step runs the heartbeat callback of session s
HeartbeatRuns(s) == probe[s] = "none" /\ probe'[s] # "none"

\* C1: under any interleaving of route calls a provider's in-flight count
\* never exceeds the load threshold of 5: two calls that both read 4 for the
\* same provider cannot both reserve it.
C1_LoadWithinThreshold ==
  \A s \in Sessions : requestQueue[s] <= loadBalancingThreshold

\* C2: when a forwarded request terminates (response, send failure or
\* timeout) the in-flight counter of its provider is back where it was before
\* the call: the terminating step takes back the call's one increment.
C2_CounterReleased ==
  [][\A r \in Requests : Terminates(r) =>
       requestQueue'[sent'[r]] =
         requestQueue[sent'[r]] - (IF sent[r] = sent'[r] THEN 1 ELSE 0)]_vars

\* C3: a pending request is terminated exactly once, and after its terminal
\* event its record is no longer in the pending table.
C3_TerminatedOnce ==
  \A r \in Requests :
    /\ terminalEvents[r] <= 1
    /\ terminalEvents[r] >= 1 => pendingRequests[r] = NoPending

C5_RejectedOnRemoval ==
  \A r \in Requests :
    (pendingRequests[r] # NoPending /\ terminalEvents[r] = 0)
      => providers[pendingRequests[r].socketId] # NoProvider

\* C6: at every heartbeat callback of a session in the registry: if more
\* than 45 s have passed since its last heartbeat it is removed and gets no
\* probe; otherwise its entry stays as it is and a probe is sent.  So once
\* the callbacks of a period have run, no monitored entry is more than 45 s
\* silent.
C6_HeartbeatDecision ==
  [][\A s \in Sessions :
       /\ (HeartbeatRuns(s) /\ providers[s] # NoProvider) =>
            IF providers[s].silence > timeoutThreshold
            THEN providers'[s] = NoProvider /\ probe'[s] = "removed"
                 /\ s \notin pingIntervals'
            ELSE providers'[s] = providers[s] /\ probe'[s] = "ping"
                 /\ s \in pingIntervals'
       /\ (s \in pingIntervals' /\ s \notin hbDue' /\ providers'[s] # NoProvider)
            => providers'[s].silence <= timeoutThreshold]_vars

\* in one period a silent session was removed and a live one was probed
C6_Witness ==
  \E s, u \in Sessions : probe[s] = "removed" /\ probe[u] = "ping"

\* C7: no completion_request is written to the socket of an entry that has
\* been removed from the registry.
C7_NoSendToRemoved ==
  [][\A r \in Requests : Sends(r) => sent'[r] \notin removed]_vars

\* C8: every entry with status active is ready for requests, has an open
\* socket and had a heartbeat within the last 45 s, also after a pong on a
\* session that is still connecting.
C8_ActiveIsUsable ==
  \A s \in Sessions :
    providers[s].status = "active" =>
      /\ providers[s].readyForRequests
      /\ ws[s] = "OPEN"
      /\ providers[s].silence <= timeoutThreshold

\* C9: a completion_request is only sent to a session that, when it was
\* selected, was registered with status active, ready for requests, with an
\* open socket, a load below the threshold and a compatible model; a session
\* still connecting never gets one.
C9_SentToEligible ==
  [][\A r \in Requests : Sends(r) =>
       \E i \in 1..Len(route[r].candidates) :
         LET c == route[r].candidates[i]
         IN /\ c.socketId = sent'[r]
            /\ c.status = "active"
            /\ c.readyForRequests
            /\ c.userId # "none"
            /\ c.open
            /\ c.load < loadBalancingThreshold
            /\ c.compatible]_vars

\* a request went out to one session while the other, still connecting, had
\* been marked active by a pong
C9_Witness ==
  \E r \in Requests, s \in Sessions :
    /\ delivered[r]
    /\ sent[r] # s
    /\ sent[r] # 0
    /\ providers[s].status = "active"
    /\ ~providers[s].readyForRequests

\* C10: removed is terminal: a session whose entry was removed never has an
\* entry or a heartbeat monitor again, whatever register call was under way.
C10_RemovedIsTerminal ==
  \A s \in removed : providers[s] = NoProvider /\ s \notin pingIntervals

\* this step is the return of register call c from User.findOne
RegisterReturns(c) == c \in registerCalls /\ c \notin registerCalls'
\* this step handles a register message whose data is malformed
MalformedRegister == registers' # registers /\ registerCalls' = registerCalls

\* C11: a register message on a session that is already registered is an
\* idempotent ack: the session stays open and its entry, its counters, its
\* heartbeat monitor and its socket handlers are what they were.
C11_ReRegisterIsAck ==
  [][\A c \in registerCalls :
       (RegisterReturns(c) /\ providers[c.socketId].readyForRequests
          /\ ws[c.socketId] = "OPEN")
         => /\ ws'[c.socketId] = "OPEN"
            /\ providers'[c.socketId].status = providers[c.socketId].status
            /\ providers'[c.socketId].models = providers[c.socketId].models
            /\ providers'[c.socketId].userId = providers[c.socketId].userId
            /\ requestCounts' = requestCounts
            /\ requestQueue' = requestQueue
            /\ pendingRequests' = pendingRequests
            /\ pingIntervals' = pingIntervals
            /\ wsHandlers' = wsHandlers]_vars

\* C12: a register attempt with an invalid credential or without a usable
\* socket is rejected: the provider table, the counters and the account index
\* stay as they were, and no active, ready entry comes of it.
C12_RejectedRegisterChangesNothing ==
  [][\A c \in registerCalls :
       (RegisterReturns(c)
          /\ (UserOfKey(c.apiKey) = "none" \/ ws[c.socketId] # "OPEN"))
         => /\ providers' = providers
            /\ providerUserIds' = providerUserIds
            /\ requestCounts' = requestCounts
            /\ requestQueue' = requestQueue]_vars

\* C13: every registration failure, a bad credential as well as malformed
\* register data, closes the session at once: the socket of the session is
\* no longer open after the handler.
C13_FailureClosesSession ==
  [][/\ MalformedRegister => \E s \in Sessions : ws[s] = "OPEN" /\ ws'[s] # "OPEN"
     /\ \A c \in registerCalls :
          (RegisterReturns(c) /\ UserOfKey(c.apiKey) = "none")
            => ws'[c.socketId] # "OPEN"]_vars

\* C14: until a session has registered, its pong and completion_response
\* messages change nothing: a connecting entry leaves that status only by a
\* register or by its removal, and while no open session is registered no
\* request is settled by a response.
C14_RegisterFirst ==
  [][/\ \A s \in Sessions :
          providers[s].status = "connecting"
            => \/ providers'[s].status = "connecting"
               \/ providers'[s].readyForRequests
               \/ providers'[s] = NoProvider
     /\ (\A s \in Sessions : ws[s] = "OPEN" => ~providers[s].readyForRequests)
          => \A r \in Requests :
               outcome'[r] \in {"resolved", "rejected_bad_response"}
                 => outcome'[r] = outcome[r]]_vars

\* C15: a completion_response whose id is not in the pending table is
\* dropped: the table, the timers, the counters and the promises stay as they
\* are, and a request without a record is not settled again.
C15_UnknownIdDropped ==
  [][\A r \in Requests :
       /\ (dropped'[r] /\ ~dropped[r])
            => /\ pendingRequests' = pendingRequests
               /\ timeoutHandle' = timeoutHandle
               /\ requestQueue' = requestQueue
               /\ requestCounts' = requestCounts
               /\ outcome' = outcome
               /\ terminalEvents' = terminalEvents
       /\ (delivered[r] /\ pendingRequests[r] = NoPending /\ route'[r] # IdleRoute)
            => /\ terminalEvents'[r] = terminalEvents[r]
               /\ outcome'[r] = outcome[r]]_vars

\* a response came for a request that its timer had already rejected, and
\* another for a request that was already resolved
C15_Witness ==
  \E r, q \in Requests :
    /\ dropped[r] /\ outcome[r] = "rejected_timeout"
    /\ dropped[q] /\ outcome[q] = "resolved"

\* C16: a session whose write fails is removed at once: when the send of a
\* completion_request fails, the provider's entry is out of the registry.
C16_FailedSendRemoves ==
  [][\A r \in Requests :
       (outcome'[r] = "rejected_send" /\ outcome[r] = "none")
         => providers'[sent'[r]] = NoProvider]_vars

\* the transaction document that processUsage call j has inserted
TransactionOf(j) == transactions[settlements[j].transactionId]
\* the welcome_bonus deposits recorded for account a
WelcomeTransactions(a) ==
  { i \in 1..Len(transactions) : transactions[i].welcome /\ transactions[i].consumerId = a }
\* a getBalance call for account a is under way
BalanceCallRunning(a) ==
  \E c \in Calls : balanceCalls[c].userId = a /\ balanceCalls[c].pc \notin {"idle", "done"}
RECURSIVE SumOver(_, _)
\* the sum of F[j] over the jobs of S
SumOver(F, S) ==
  IF S = {} THEN 0
  ELSE LET j == CHOOSE x \in S : TRUE IN F[j] + SumOver(F, S \ {j})
\* what the settlements have credited to and debited from account a
Credits(a) == SumOver([j \in Jobs |-> IF settlements[j].providerId = a THEN applied[j].credit ELSE 0], Jobs)
Debits(a) == SumOver([j \in Jobs |-> IF settlements[j].consumerId = a THEN applied[j].debit ELSE 0], Jobs)
\* the balance the account's document was inserted with
InitialBalance(a) == IF createdBy[a] = "welcome" THEN welcome_amount ELSE 0

C18_AtomicGroup ==
  \A j \in Jobs :
    (settlements[j].pc = "failed" /\ settlements[j].consumerId # settlements[j].providerId
       /\ settlements[j].muleAmount > 0)
      => \/ ~applied[j].recorded /\ applied[j].debit = 0 /\ applied[j].credit = 0
         \/ applied[j].recorded /\ applied[j].debit # 0 /\ applied[j].credit # 0

\* C19: however many getBalance calls run for an account that has no balance
\* document, once they are through there is one document, created with the
\* welcome amount, and exactly one welcome_bonus deposit for the account.
C19_OneWelcome ==
  \A a \in Accounts :
    (createdBy[a] = "welcome" /\ ~BalanceCallRunning(a))
      => Cardinality(WelcomeTransactions(a)) = 1

\* C20: in every interleaving of settlements each account's balance is the
\* balance its document was created with, plus the credits applied to it,
\* minus the debits applied to it.
C20_NoLostUpdate ==
  \A a \in Accounts : balance[a] = InitialBalance(a) + Credits(a) - Debits(a)

\* two settlements of the same consumer and the same provider have both
\* debited the consumer's document before either has credited the provider
C20_Witness ==
  \E a \in Accounts :
    /\ \A j \in Jobs : /\ settlements[j].consumerId = a
                       /\ settlements[j].pc = "debited"
                       /\ applied[j].debit > 0
    /\ \A i, j \in Jobs : settlements[i].providerId = settlements[j].providerId
    /\ createdBy[a] = "welcome"
    /\ balance[a] < welcome_amount

\* the place of session s in the order of first registrations (0: never registered)
RegisteredAt(s) ==
  IF \E i \in 1..Len(registeredOrder) : registeredOrder[i] = s
  THEN CHOOSE i \in 1..Len(registeredOrder) : registeredOrder[i] = s
  ELSE 0

\* C26: one route call sends at most one completion_request, to one
\* provider: once the call has sent, the session it sent to never changes,
\* whatever failure or timeout ends the call.
C26_NoResend ==
  [][\A r \in Requests : sent[r] # 0 => sent'[r] = sent[r]]_vars

\* a call that was sent to one provider has failed while another provider
\* was eligible for the same model
C26_Witness ==
  \E r \in Requests, s \in Sessions :
    /\ sent[r] # 0
    /\ s # sent[r]
    /\ route[r].pc = "done"
    /\ outcome[r] \in {"rejected_timeout", "rejected_bad_response"}
    /\ isEligible(s, AskMistral)
    /\ isEligible(s, TierMedium)

\* C28: the provider a call is sent to has the highest score among the
\* call's candidates, and among the candidates with that score it is the one
\* that registered first.
C28_BestFirstRegistered ==
  \A r \in Requests :
    sent[r] # 0
      => /\ sent[r] \in topScorers[r]
         /\ \A t \in topScorers[r] : RegisteredAt(sent[r]) <= RegisteredAt(t)

\* the account behind the session that request h was sent to
ServingAccount(h) == AccountOf(providers[sent[h]].userId)
\* handler h has answered with the completion
Completed(h) == handlers[h].pc = "responded" /\ handlers[h].status = 200

\* C21: when a completed request was served by a session of the consumer's
\* own account, exactly one transaction was recorded for it, of type
\* self_service with mule_amount = tokensToMules(total, tier), no balance
\* was changed, and the answer's transaction_mule_cost is 0.
C21_SelfServiceIsFree ==
  \A h \in ControllerRequests :
    (Completed(h) /\ sent[h] # 0 /\ ServingAccount(h) = handlers[h].user)
      => /\ settlements[h].transactionId # 0
         /\ TransactionOf(h).transactionType = "self_service"
         /\ TransactionOf(h).muleAmount =
              tokensToMules(handlers[h].usage.total_tokens,
                            ModelTier[handlers[h].selectedModel])
         /\ applied[h].debit = 0
         /\ applied[h].credit = 0
         /\ handlers[h].cost = 0

\* C22: a settlement whose usage has no tokens at all (total 0 and nothing to
\* add up) changes no balance and inserts no Balance document, and when it
\* is through, its transaction is recorded with amount 0.
C22_ZeroAmountRecorded ==
  \A h \in ControllerRequests :
    (handlers[h].pc \in {"settling", "responded"}
       /\ settlements[h].pc # "idle" /\ handlers[h].usage.total_tokens = 0)
      => /\ applied[h].debit = 0
         /\ applied[h].credit = 0
         /\ \A a \in Accounts : balance[a] = InitialBalance(a) /\ createdBy[a] # "credit"
         /\ settlements[h].pc = "done"
              => /\ applied[h].recorded
                 /\ TransactionOf(h).muleAmount = 0
                 /\ TransactionOf(h).consumerId = handlers[h].user

\* a completed request whose response reported a usage of 0 tokens and was
\* settled as a consumption
C22_Witness ==
  \E h \in ControllerRequests :
    /\ Completed(h)
    /\ response[h] = "usage"
    /\ handlers[h].usage.total_tokens = 0
    /\ settlements[h].pc = "done"
    /\ TransactionOf(h).transactionType = "consumption"
    /\ TransactionOf(h).muleAmount = 0

C24_SettlementFailureIsSilent ==
  \A h \in ControllerRequests :
    (handlers[h].pc = "responded" /\ outcome[h] = "resolved"
       /\ validResponse(response[h]) /\ settlements[h].pc = "failed")
      => handlers[h].status = 200

\* the response of request h had no first choice with content
BadResponse(h) ==
  \/ outcome[h] = "rejected_bad_response"
  \/ outcome[h] = "resolved" /\ ~validResponse(response[h])

\* C25: when the completion_response of a request has no non-empty first
\* choice with content, the client is answered with an error, nothing is
\* settled (no transaction, no balance change), and the request's pending
\* record, its timer and its in-flight reservation are released.
C25_BadResponseFails ==
  \A h \in ControllerRequests :
    (handlers[h].pc = "responded" /\ BadResponse(h))
      => /\ handlers[h].status >= 400
         /\ settlements[h] = IdleSettlement
         /\ applied[h] = NothingApplied
         /\ pendingRequests[h] = NoPending
         /\ h \notin timeoutHandle
         /\ requestQueue[sent[h]] = 0

\* C27: a request for which no provider passes the dispatcher's filter is
\* answered with HTTP 400, code model_not_available, and leaves the
\* in-flight counters, the pending table and the settlements as they were.
C27_NoProviderIs400 ==
  \A h \in ControllerRequests :
    (handlers[h].pc = "responded" /\ outcome[h] = "no_provider")
      => /\ handlers[h].status = 400
         /\ handlers[h].code = "model_not_available"
         /\ \A s \in Sessions : requestQueue[s] = 0
         /\ pendingRequests[h] = NoPending
         /\ h \notin timeoutHandle
         /\ settlements[h] = IdleSettlement
         /\ applied[h] = NothingApplied

\* session s advertises a model with the normalized name of requestedModel
advertises(s, requestedModel) ==
  \E i \in 1..Len(providers[s].models) :
    _isExactModelMatch(providers[s].models[i], requestedModel)

\* C29: a request that names a model is sent only to a session that
\* advertises a model with the same normalized name, and the provider chosen
\* for the request (the one that is settled) advertises such a model too.
C29_ExactModelOnly ==
  \A h \in ControllerRequests :
    handlers[h].model = AskMistral
      => /\ sent[h] # 0 => advertises(sent[h], handlers[h].model)
         /\ handlers[h].socketId # 0 => advertises(handlers[h].socketId, handlers[h].model)

\* the public handle of the account behind session s (<<>>: no account)
HandleOfSession(s) ==
  IF providers[s].userId = "none" THEN <<>>
  ELSE generateProviderNumber(providers[s].userId)

\* C30: a request for model@handle is sent only to a session whose account
\* has that handle and which advertises a model with the same normalized
\* name; when no active provider has the handle, nothing is sent and the
\* request, unless it is refused for its balance, is answered with HTTP 400,
\* code model_not_available.
C30_AddressedToItsHandle ==
  \A h \in ControllerRequests :
    handlers[h].model = AskAddressed
      => /\ sent[h] # 0
              => /\ HandleOfSession(sent[h]) = SplitLast(handlers[h].model, "@")
                 /\ advertises(sent[h], SplitFirst(handlers[h].model, "@"))
         /\ (/\ handlers[h].pc = "responded"
             /\ handlers[h].code # "insufficient_balance"
             /\ \A s \in Sessions :
                  providers[s].status = "active"
                    => HandleOfSession(s) # SplitLast(handlers[h].model, "@"))
              => /\ sent[h] = 0
                 /\ handlers[h].status = 400
                 /\ handlers[h].code = "model_not_available"

\* C34: the provider account a request is settled with is the account behind
\* the session that the request was sent to.
C34_SettledWithServer ==
  \A h \in ControllerRequests :
    (settlements[h].pc # "idle" /\ sent[h] # 0)
      => settlements[h].providerId = ServingAccount(h)

C32_ClassifierTotal ==
  classification.pc = "done" => classification.tier \in Tiers

\* C31: a request with a combined selector tier|substring, made while no
\* active provider advertises a model of that tier whose lower-cased name
\* contains the substring, and not refused for its balance, is answered 400
\* model_not_available (no provider available) and never invalid_model.
C31_CombinedWithoutMatch ==
  \A h \in ControllerRequests :
    LET model == handlers[h].model
        tierPart == SplitFirst(model, "|")
        substring == SubSeq(model, Len(tierPart) + 2, Len(model))
        matched == \E s \in Sessions :
                     /\ providers[s].status = "active"
                     /\ \E i \in 1..Len(providers[s].models) :
                          /\ TierWord(ModelTier[providers[s].models[i]]) = tierPart
                          /\ Includes(ToLowerCase(providers[s].models[i]), substring)
    IN (/\ handlers[h].pc = "responded"
        /\ handlers[h].code # "insufficient_balance"
        /\ model \in CombinedSelectors
        /\ ~matched)
         => /\ handlers[h].status = 400
            /\ handlers[h].code = "model_not_available"

\* C35: for every session in the registry whose connection is open, the
\* in-flight counter that selection reads (requestQueue) is the number of
\* pending records bound to the session.
C35_CounterIsPendingCount ==
  \A s \in Sessions :
    (lookup(s) # NoProvider /\ ws[s] = "OPEN")
      => requestQueue[s] = Cardinality({r \in Requests : pendingRequests[r].socketId = s})

\* C36: a completion_response that carries the id of a pending request and
\* arrives on another connection than the one the request is bound to (the
\* bound connection is closed, so the message is not from it) leaves the
\* request pending and unsettled and its session's counter as it was.
C36_ResolvedByItsSession ==
  [][\A s \in Sessions, r \in Requests, kind \in ResponseKinds :
       (/\ CompletionResponse(s, r, kind)
        /\ isPending(r)
        /\ s # pendingRequests[r].socketId
        /\ ws[pendingRequests[r].socketId] # "OPEN")
         => /\ pendingRequests'[r] = pendingRequests[r]
            /\ outcome'[r] = outcome[r]
            /\ requestQueue' = requestQueue]_vars

\* C37: the messages of one connection take effect in arrival order: a
\* register message is not applied (its credential lookup does not return
\* into the handler) while an earlier register message of the same
\* connection is still suspended on its own lookup.
C37_InArrivalOrder ==
  [][\A c \in registerCalls :
       (\E d \in registerCalls : d.socketId = c.socketId /\ d.n < c.n)
         => ~RegisterReturns(c)]_vars

\* C38: the model identifier of a forwarded completion_request (the
\* selected model, for a tier selector and for a named model alike) is one
\* of the model names that the session it is sent to advertises.
C38_ForwardedModelIsAdvertised ==
  [][\A h \in ControllerRequests :
       (route[h].pc # "sending" /\ route'[h].pc = "sending")
         => \E i \in 1..Len(providers[sent'[h]].models) :
              providers[sent'[h]].models[i] = handlers[h].selectedModel]_vars

\* the samples of document doc are the n most recently pushed, in push order
MostRecent(samples, doc, n) ==
  /\ Len(samples) = n
  /\ \A i \in 1..n : samples[i].timestamp = doc.total_requests - n + i

C39_SampleOnEveryOutcome ==
  \A h \in ControllerRequests :
    (handlers[h].pc = "responded" /\ sent[h] # 0 /\ outcome[h] # "none"
       /\ ServingAccount(h) # 0)
      => /\ performance[ServingAccount(h)].total_requests = 1
         /\ \A a \in Accounts \ {ServingAccount(h)} : performance[a].total_requests = 0

====
